---- MODULE Spec2Model ----
(***************************************************************************)
(* Reverse single-source Dijkstra dispatch engine (src/Djikastra.py).      *)
(*                                                                         *)
(* Numbers.  The program computes with Python floats; the model computes   *)
(* with exact integers.  The six coefficients are kept in thousandths      *)
(* (0.619 is 619), edge attributes are integers, and every composite       *)
(* weight, distance and weighted risk component is therefore an integer    *)
(* number of millionths.  float('inf') is the value Inf, compared by       *)
(* Less exactly as IEEE comparison treats it.                              *)
(*                                                                         *)
(* Nodes are the integers 1..NumNodes; their numeric order stands for the  *)
(* lexicographic order of the node names, which heapq uses to break ties.  *)
(***************************************************************************)
EXTENDS Integers, Sequences, FiniteSets, TLC

\* ---------------------------------------------------------------- bounds
NumNodes == 3
MaxEdges == 3
MaxHospitals == 2
MaxRoute == 3

Nodes == 1..NumNodes

\* ------------------------------------------------------- program constants
w_T == 619
w_R == 284
w_C == 96
v_net == 623
v_gps == 239
v_data == 137

\* None (no predecessor) and float('inf')
None == 0
Inf == -1

\* Edge payloads the graphs are drawn from: a free edge, a light edge and a
\* heavy edge (two light edges cost less than one heavy edge).
Payloads ==
  { [time |-> 0, cost |-> 0, it_risk |-> [network |-> 0, gps |-> 0, data |-> 0]],
    [time |-> 1, cost |-> 1, it_risk |-> [network |-> 0, gps |-> 1, data |-> 0]],
    [time |-> 3, cost |-> 2, it_risk |-> [network |-> 1, gps |-> 0, data |-> 1]] }

VARIABLES
  G,                \* self.G: node -> (neighbour -> payload)
  G_prime,          \* self.G_prime
  V,                \* self.V
  coeff,            \* the six coefficients held by the object
  destination,      \* argument of the running call
  hospitals,        \* argument of the running call (a list)
  lambda,           \* local: distances
  pred,             \* local: predecessors in G'
  Q,                \* local: the heap, a set of <<distance, node>>
  visited,          \* local: visited set
  found_hospitals,  \* local: insertion-ordered dict, a sequence of [h, cost]
  order,            \* history: the nodes in the order they were marked visited
  pushes,           \* history: number of heappush calls of the running call
  pc,               \* "idle" | "search" | "done"; "measured" | "reconstructed"
                    \* after a direct call of a helper method
  result,           \* the value returned by the last call
  first,            \* the value returned by the first of two equal calls
  probe             \* the last direct call of a helper method: its argument and value

vars == <<G, G_prime, V, coeff, destination, hospitals, lambda, pred, Q,
          visited, found_hospitals, order, pushes, pc, result, first, probe>>

engine == <<G, G_prime, V, coeff>>

\* ---------------------------------------------------------------- helpers
Less(a, b) == IF a = Inf THEN FALSE ELSE IF b = Inf THEN TRUE ELSE a < b

Get(d, k, default) == IF k \in DOMAIN d THEN d[k] ELSE default

Range(s) == {s[i] : i \in DOMAIN s}

Perms(S) == {s \in [1..Cardinality(S) -> S] : \A i, j \in DOMAIN s : i # j => s[i] # s[j]}

Reverse(s) == [i \in 1..Len(s) |-> s[Len(s) + 1 - i]]

\* ------------------------------------------------------------ construction
Edges(g) == {e \in Nodes \X Nodes : e[1] \in DOMAIN g /\ e[2] \in DOMAIN g[e[1]]}

\* Mutant: only the keys of G become keys of G'; edges into sinks are lost.
_reverse_graph_keys(g) ==
  [v \in DOMAIN g |->
     [u \in {x \in DOMAIN g : v \in DOMAIN g[x]} |-> g[u][v]]]

_reverse_graph(g) ==
  LET all_vertices == DOMAIN g \cup UNION {DOMAIN g[u] : u \in DOMAIN g}
  IN  [v \in all_vertices |->
         [u \in {x \in DOMAIN g : v \in DOMAIN g[x]} |-> g[u][v]]]

_get_all_nodes(g) == DOMAIN g \cup UNION {DOMAIN g[u] : u \in DOMAIN g}

Coefficients ==
  [w_T |-> w_T, w_R |-> w_R, w_C |-> w_C,
   v_net |-> v_net, v_gps |-> v_gps, v_data |-> v_data]

_calculate_composite_weight(attributes) ==
  LET t == attributes.time
      c == attributes.cost
      it_risk == attributes.it_risk
      IT_composite == coeff.v_net * it_risk.network
                      + coeff.v_gps * it_risk.gps
                      + coeff.v_data * it_risk.data
  IN  coeff.w_T * t * 1000 + coeff.w_R * IT_composite + coeff.w_C * c * 1000

\* The graphs a caller can hand to the constructor: at most MaxEdges edges
\* between distinct nodes, and either only the edge sources or every node as a
\* key of the outer dict.
EdgeSets == {S \in SUBSET {e \in Nodes \X Nodes : e[1] # e[2]} : Cardinality(S) <= MaxEdges}

MakeGraph(S, pay, keys) ==
  [u \in keys |-> [v \in {x \in Nodes : <<u, x>> \in S} |-> pay[<<u, v>>]]]

HospitalLists == UNION {[1..n -> Nodes] : n \in 0..MaxHospitals}

Init ==
  /\ \E S \in EdgeSets : \E pay \in [S -> Payloads] :
       \E keys \in {{e[1] : e \in S}, Nodes} :
         G = MakeGraph(S, pay, keys)
  /\ G_prime = _reverse_graph(G)
  /\ V = _get_all_nodes(G)
  /\ coeff = Coefficients
  /\ destination = None
  /\ hospitals = <<>>
  /\ lambda = <<>>
  /\ pred = <<>>
  /\ Q = {}
  /\ visited = {}
  /\ found_hospitals = <<>>
  /\ order = <<>>
  /\ pushes = 0
  /\ pc = "idle"
  /\ result = [kind |-> "none"]
  /\ first = [kind |-> "none"]
  /\ probe = [fn |-> "none"]

\* ------------------------------------------------------ find_optimal_dispatch
\* Mutant: the destination's distance is left at infinity.
Call_noZero(d, hs) ==
  /\ pc = "idle"
  /\ destination' = d
  /\ hospitals' = hs
  /\ lambda' = [n \in V \cup {d} |-> Inf]
  /\ pred' = [n \in V |-> None]
  /\ Q' = {<<0, d>>}
  /\ visited' = {}
  /\ found_hospitals' = <<>>
  /\ order' = <<>>
  /\ pushes' = 1
  /\ pc' = "search"
  /\ UNCHANGED <<G, G_prime, V, coeff, result, first, probe>>

\* Mutant: a destination is added to the object's vertex set.
Call_addsNode(d, hs) ==
  /\ pc = "idle"
  /\ destination' = d
  /\ hospitals' = hs
  /\ V' = V \cup {d}
  /\ lambda' = [n \in V' |-> IF n = d THEN 0 ELSE Inf]
  /\ pred' = [n \in V |-> None]
  /\ Q' = {<<0, d>>}
  /\ visited' = {}
  /\ found_hospitals' = <<>>
  /\ order' = <<>>
  /\ pushes' = 1
  /\ pc' = "search"
  /\ UNCHANGED <<G, G_prime, coeff, result, first, probe>>

\* STEP 1: initialisation of one call.
Call(d, hs) ==
  /\ pc = "idle"
  /\ destination' = d
  /\ hospitals' = hs
  /\ lambda' = [n \in V \cup {d} |-> IF n = d THEN 0 ELSE Inf]
  /\ pred' = [n \in V |-> None]
  /\ Q' = {<<0, d>>}
  /\ visited' = {}
  /\ found_hospitals' = <<>>
  /\ order' = <<>>
  /\ pushes' = 1
  /\ pc' = "search"
  /\ UNCHANGED <<engine, result, first, probe>>

\* heapq orders its tuples lexicographically: distance, then node.
TupleLeq(e, f) == e[1] < f[1] \/ (e[1] = f[1] /\ e[2] <= f[2])

\* Mutant: the heap hands out its largest entry.
HeapMin_max(q) == CHOOSE e \in q : \A f \in q : TupleLeq(f, e)

HeapMin(q) == CHOOSE e \in q : \A f \in q : TupleLeq(e, f)

\* Mutant: an entry equal to the recorded distance is discarded too (>=).
Stale_geq(e) == ~Less(e[1], lambda[e[2]]) \/ e[2] \in visited

Stale(e) == Less(lambda[e[2]], e[1]) \/ e[2] \in visited

FoundKeys(fh) == {fh[i].h : i \in DOMAIN fh}

\* Mutant: a visited neighbour ends the loop (break for continue).
RECURSIVE Relax_break(_, _, _, _, _, _)
Relax_break(ord, i, k, lambda_k, vis, st) ==
  IF i > Len(ord) THEN st
  ELSE
    LET neighbor == ord[i]
        attributes == G_prime[k][neighbor]
        w == _calculate_composite_weight(attributes)
        new_lambda == lambda_k + w
    IN  IF neighbor \in vis THEN st
        ELSE IF Less(new_lambda, st.lambda[neighbor])
        THEN Relax_break(ord, i + 1, k, lambda_k, vis,
                   [lambda |-> [st.lambda EXCEPT ![neighbor] = new_lambda],
                    pred |-> [st.pred EXCEPT ![neighbor] = k],
                    Q |-> st.Q \cup {<<new_lambda, neighbor>>},
                    pushes |-> st.pushes + 1])
        ELSE Relax_break(ord, i + 1, k, lambda_k, vis, st)

\* Mutant: pred is set for every unvisited neighbour, improved or not.
RECURSIVE Relax_predAlways(_, _, _, _, _, _)
Relax_predAlways(ord, i, k, lambda_k, vis, st) ==
  IF i > Len(ord) THEN st
  ELSE
    LET neighbor == ord[i]
        attributes == G_prime[k][neighbor]
        w == _calculate_composite_weight(attributes)
        new_lambda == lambda_k + w
    IN  IF neighbor \in vis THEN Relax_predAlways(ord, i + 1, k, lambda_k, vis, st)
        ELSE IF Less(new_lambda, st.lambda[neighbor])
        THEN Relax_predAlways(ord, i + 1, k, lambda_k, vis,
                   [lambda |-> [st.lambda EXCEPT ![neighbor] = new_lambda],
                    pred |-> [st.pred EXCEPT ![neighbor] = k],
                    Q |-> st.Q \cup {<<new_lambda, neighbor>>},
                    pushes |-> st.pushes + 1])
        ELSE Relax_predAlways(ord, i + 1, k, lambda_k, vis,
                   [st EXCEPT !.pred = [st.pred EXCEPT ![neighbor] = k]])

\* Mutant: the edge weight is pushed in place of the new distance.
RECURSIVE Relax_pushWeight(_, _, _, _, _, _)
Relax_pushWeight(ord, i, k, lambda_k, vis, st) ==
  IF i > Len(ord) THEN st
  ELSE
    LET neighbor == ord[i]
        attributes == G_prime[k][neighbor]
        w == _calculate_composite_weight(attributes)
        new_lambda == lambda_k + w
    IN  IF neighbor \in vis THEN Relax_pushWeight(ord, i + 1, k, lambda_k, vis, st)
        ELSE IF Less(new_lambda, st.lambda[neighbor])
        THEN Relax_pushWeight(ord, i + 1, k, lambda_k, vis,
                   [lambda |-> [st.lambda EXCEPT ![neighbor] = new_lambda],
                    pred |-> [st.pred EXCEPT ![neighbor] = k],
                    Q |-> st.Q \cup {<<w, neighbor>>},
                    pushes |-> st.pushes + 1])
        ELSE Relax_pushWeight(ord, i + 1, k, lambda_k, vis, st)

\* The relaxation loop over the neighbours of k, in the order ord, from index i.
RECURSIVE Relax(_, _, _, _, _, _)
Relax(ord, i, k, lambda_k, vis, st) ==
  IF i > Len(ord) THEN st
  ELSE
    LET neighbor == ord[i]
        attributes == G_prime[k][neighbor]
        w == _calculate_composite_weight(attributes)
        new_lambda == lambda_k + w
    IN  IF neighbor \in vis THEN Relax(ord, i + 1, k, lambda_k, vis, st)
        ELSE IF Less(new_lambda, st.lambda[neighbor])
        THEN Relax(ord, i + 1, k, lambda_k, vis,
                   [lambda |-> [st.lambda EXCEPT ![neighbor] = new_lambda],
                    pred |-> [st.pred EXCEPT ![neighbor] = k],
                    Q |-> st.Q \cup {<<new_lambda, neighbor>>},
                    pushes |-> st.pushes + 1])
        ELSE Relax(ord, i + 1, k, lambda_k, vis, st)

\* Mutant: only the first hospital met is recorded.
Record_first(fh, k, hs, lam) ==
  IF k \in Range(hs) /\ fh = <<>>
  THEN Append(fh, [h |-> k, cost |-> lam[k]])
  ELSE fh

\* Mutant: a hospital is recorded as soon as it has a tentative distance.
Record_tentative(fh, k, hs, lam) ==
  LET seen == {h \in Range(hs) \cap DOMAIN lam : lam[h] # Inf} \ FoundKeys(fh)
  IN  IF seen = {} THEN fh
      ELSE LET h == CHOOSE x \in seen : \A y \in seen : x <= y
           IN  Append(fh, [h |-> h, cost |-> lam[h]])

Record(fh, k, hs, lam) ==
  IF k \in Range(hs) /\ k \notin FoundKeys(fh)
  THEN Append(fh, [h |-> k, cost |-> lam[k]])
  ELSE fh

\* STEP 2, one iteration whose popped entry is outdated or already visited.
Skip ==
  /\ pc = "search"
  /\ Q # {}
  /\ LET e == HeapMin(Q)
     IN  /\ Stale(e)
         /\ Q' = Q \ {e}
  /\ UNCHANGED <<engine, destination, hospitals, lambda, pred, visited,
                 found_hospitals, order, pushes, pc, result, first, probe>>

\* STEP 2, one iteration that marks the popped node visited and relaxes the
\* edges leaving it in G'.  The dict G_prime[k] is walked in its insertion
\* order, which equal graphs need not share: any order is possible.
Visit ==
  /\ pc = "search"
  /\ Q # {}
  /\ LET e == HeapMin(Q)
         lambda_k == e[1]
         k == e[2]
         vis == visited \cup {k}
         adj == Get(G_prime, k, <<>>)
     IN  /\ ~Stale(e)
         /\ visited' = vis
         /\ order' = Append(order, k)
         /\ found_hospitals' = Record(found_hospitals, k, hospitals, lambda)
         /\ \E ord \in Perms(DOMAIN adj) :
              LET st == Relax(ord, 1, k, lambda_k, vis,
                              [lambda |-> lambda, pred |-> pred,
                               Q |-> Q \ {e}, pushes |-> pushes])
              IN  /\ lambda' = st.lambda
                  /\ pred' = st.pred
                  /\ Q' = st.Q
                  /\ pushes' = st.pushes
  /\ UNCHANGED <<engine, destination, hospitals, pc, result, first, probe>>

\* Mutant: max() for min().
ArgMin_max(fh) ==
  LET i == CHOOSE i \in DOMAIN fh :
             /\ \A j \in DOMAIN fh : fh[i].cost >= fh[j].cost
             /\ \A j \in 1..(i - 1) : fh[j].cost < fh[i].cost
  IN  fh[i].h

\* Mutant: among equal minima the last one met is kept.
ArgMin_last(fh) ==
  LET i == CHOOSE i \in DOMAIN fh :
             /\ \A j \in DOMAIN fh : fh[i].cost <= fh[j].cost
             /\ \A j \in (i + 1)..Len(fh) : fh[j].cost > fh[i].cost
  IN  fh[i].h

\* STEP 3: argmin over the found hospitals; min() keeps the first minimum it
\* meets, in the dict's insertion order.
ArgMin(fh) ==
  LET i == CHOOSE i \in DOMAIN fh :
             /\ \A j \in DOMAIN fh : fh[i].cost <= fh[j].cost
             /\ \A j \in 1..(i - 1) : fh[j].cost > fh[i].cost
  IN  fh[i].h

CostOf(fh, k) == (CHOOSE i \in DOMAIN fh : fh[i].h = k) \* found_hospitals[k]

\* STEP 4: follow pred from a node until None.  The pred map of a search is
\* acyclic; the length test only stops the evaluation of a cyclic map.
RECURSIVE Trace(_, _, _)
Trace(current, p, acc) ==
  IF current = None \/ Len(acc) > NumNodes + 1 THEN acc
  ELSE Trace(Get(p, current, None), p, Append(acc, current))

\* Mutant: the traced path is handed back reversed.
_reconstruct_reversed(hospital, p) == Reverse(Trace(hospital, p, <<>>))

_reconstruct_original_path(hospital, p) == Trace(hospital, p, <<>>)

RouteOf(h, p) == Reverse(Trace(h, p, <<>>))

\* Mutant: the replay stops at the first pair that is no forward edge.
RECURSIVE Metrics_break(_, _, _)
Metrics_break(route, i, m) ==
  IF i > Len(route) - 1 THEN m
  ELSE
    LET u == route[i]
        v == route[i + 1]
    IN  IF u \in DOMAIN G /\ v \in DOMAIN G[u]
        THEN LET edge_data == G[u][v]
                 it_risk == edge_data.it_risk
             IN  Metrics_break(route, i + 1,
                   [travel_time |-> m.travel_time + edge_data.time,
                    total_cost |-> m.total_cost + edge_data.cost,
                    it_components |->
                      [network |-> m.it_components.network
                                   + coeff.w_R * coeff.v_net * it_risk.network,
                       gps |-> m.it_components.gps
                               + coeff.w_R * coeff.v_gps * it_risk.gps,
                       data |-> m.it_components.data
                                + coeff.w_R * coeff.v_data * it_risk.data]])
        ELSE m

\* STEP 5: replay a route against the forward graph.
RECURSIVE Metrics(_, _, _)
Metrics(route, i, m) ==
  IF i > Len(route) - 1 THEN m
  ELSE
    LET u == route[i]
        v == route[i + 1]
    IN  IF u \in DOMAIN G /\ v \in DOMAIN G[u]
        THEN LET edge_data == G[u][v]
                 it_risk == edge_data.it_risk
             IN  Metrics(route, i + 1,
                   [travel_time |-> m.travel_time + edge_data.time,
                    total_cost |-> m.total_cost + edge_data.cost,
                    it_components |->
                      [network |-> m.it_components.network
                                   + coeff.w_R * coeff.v_net * it_risk.network,
                       gps |-> m.it_components.gps
                               + coeff.w_R * coeff.v_gps * it_risk.gps,
                       data |-> m.it_components.data
                                + coeff.w_R * coeff.v_data * it_risk.data]])
        ELSE Metrics(route, i + 1, m)

_calculate_route_metrics(route) ==
  Metrics(route, 1,
          [travel_time |-> 0, total_cost |-> 0,
           it_components |-> [network |-> 0, gps |-> 0, data |-> 0]])

Details(fh, h, p) ==
  LET route == RouteOf(h, p)
      metrics == _calculate_route_metrics(route)
  IN  [lambda |-> fh[CostOf(fh, h)].cost,
       route |-> route,
       travel_time |-> metrics.travel_time,
       total_cost |-> metrics.total_cost,
       it_components |-> metrics.it_components]

Outcome(fh, p, lam) ==
  IF fh = <<>> THEN [kind |-> "error", error |-> "No reachable hospitals found"]
  ELSE
    LET h_star == ArgMin(fh)
        C_star == fh[CostOf(fh, h_star)].cost
    IN  [kind |-> "success",
         optimal_hospital |-> h_star,
         optimal_cost |-> C_star,
         optimal_route |-> RouteOf(h_star, p),
         all_hospitals |-> [h \in FoundKeys(fh) |-> Details(fh, h, p)],
         pred |-> p,
         lambda |-> lam]

\* STEPS 3-5: the queue is empty; build and return the result.
Extract ==
  /\ pc = "search"
  /\ Q = {}
  /\ result' = Outcome(found_hospitals, pred, lambda)
  /\ pc' = "done"
  /\ UNCHANGED <<engine, destination, hospitals, lambda, pred, Q, visited,
                 found_hospitals, order, pushes, first, probe>>

Next ==
  \/ \E d \in Nodes : \E hs \in HospitalLists : Call(d, hs)
  \/ Skip
  \/ Visit
  \/ Extract

Spec == Init /\ [][Next]_vars

\* A second invocation on the same object, with the same destination and the
\* same candidates in any order (hs2 is a permutation of the first list).
IsPermutation(s, t) ==
  /\ Len(s) = Len(t)
  /\ \E f \in Perms(DOMAIN s) : \A i \in DOMAIN s : t[i] = s[f[i]]

Again(hs2) ==
  /\ pc = "done"
  /\ first.kind = "none"
  /\ IsPermutation(hospitals, hs2)
  /\ first' = [kind |-> "call", hospitals |-> hospitals, result |-> result]
  /\ hospitals' = hs2
  /\ lambda' = [n \in V \cup {destination} |-> IF n = destination THEN 0 ELSE Inf]
  /\ pred' = [n \in V |-> None]
  /\ Q' = {<<0, destination>>}
  /\ visited' = {}
  /\ found_hospitals' = <<>>
  /\ order' = <<>>
  /\ pushes' = 1
  /\ pc' = "search"
  /\ UNCHANGED <<engine, destination, result, probe>>

NextTwice == Next \/ \E hs2 \in HospitalLists : Again(hs2)

SpecTwice == Init /\ [][NextTwice]_vars

\* Direct calls of the two helper methods.  _calculate_route_metrics is called
\* on a freshly constructed object with any sequence of nodes;
\* _reconstruct_original_path with the pred map of a completed search.
Routes == UNION {[1..n -> Nodes] : n \in 0..MaxRoute}

Measure(route) ==
  /\ pc = "idle"
  /\ probe' = [fn |-> "metrics", route |-> route,
               out |-> _calculate_route_metrics(route)]
  /\ pc' = "measured"
  /\ UNCHANGED <<engine, destination, hospitals, lambda, pred, Q, visited,
                 found_hospitals, order, pushes, result, first>>

Reconstruct(n) ==
  /\ pc = "done"
  /\ probe' = [fn |-> "path", node |-> n,
               out |-> _reconstruct_original_path(n, pred)]
  /\ pc' = "reconstructed"
  /\ UNCHANGED <<engine, destination, hospitals, lambda, pred, Q, visited,
                 found_hospitals, order, pushes, result, first>>

NextProbe ==
  \/ Next
  \/ \E route \in Routes : Measure(route)
  \/ \E n \in Nodes : Reconstruct(n)

SpecProbe == Init /\ [][NextProbe]_vars

\* The call runs to completion: the loop and the extraction are never left
\* half-way.
SpecLive == Init /\ [][Next]_vars /\ WF_vars(Skip) /\ WF_vars(Visit) /\ WF_vars(Extract)

\* ======================================================================
\* Properties
\* ======================================================================
Finite(x) == x # Inf

Done == pc = "done"

Success == pc = "done" /\ result.kind = "success"

Failure == pc = "done" /\ result.kind = "error"

Candidates == Range(hospitals)

\* The cost of the cheapest forward path n -> ... -> d, by Bellman-Ford over
\* the forward graph G (Inf when there is none; 0 for n = d).
MinFinite(S) ==
  IF S \ {Inf} = {} THEN Inf
  ELSE CHOOSE x \in S \ {Inf} : \A y \in S \ {Inf} : x <= y

RECURSIVE PathCost(_, _)
PathCost(d, hops) ==
  IF hops = 0 THEN [n \in Nodes |-> IF n = d THEN 0 ELSE Inf]
  ELSE
    LET shorter == PathCost(d, hops - 1)
    IN  [n \in Nodes |->
           MinFinite({shorter[n]} \cup
                     {shorter[e[2]] + _calculate_composite_weight(G[e[1]][e[2]]) :
                        e \in {f \in Edges(G) : f[1] = n /\ Finite(shorter[f[2]])}})]

TrueCost == PathCost(destination, NumNodes)

EdgeWeight(u, v) == _calculate_composite_weight(G[u][v])

Position(n) == CHOOSE i \in DOMAIN order : order[i] = n

First(s) == s[1]

Last(s) == s[Len(s)]

\* C1: when the search loop has terminated, the distance of every node of V is
\* the cost of its cheapest forward path to the destination (0 for the
\* destination), a node with no forward path keeps distance infinity and no
\* predecessor, and a success result returns exactly these maps.
C1_DistancesAreMinimal ==
  Done =>
    /\ \A n \in V :
         /\ lambda[n] = TrueCost[n]
         /\ ~Finite(TrueCost[n]) => lambda[n] = Inf /\ pred[n] = None
    /\ result.kind = "success" => result.lambda = lambda /\ result.pred = pred

\* C1 witness: a finished search in which a node's direct edge to the
\* destination costs more than its cheapest path (its first queue entry went
\* stale).
C1_Witness ==
  /\ Success
  /\ \E n \in V : /\ <<n, destination>> \in Edges(G)
                  /\ Finite(lambda[n])
                  /\ lambda[n] < EdgeWeight(n, destination)

\* C2: in a success result the selected candidate is one of the supplied
\* candidates, its distance is finite and no larger than that of any other
\* reachable candidate, and optimal_cost is its entry of the returned map.
C2_SelectedIsMinimal ==
  Success =>
    LET h == result.optimal_hospital
    IN  /\ h \in Candidates
        /\ h \in DOMAIN result.lambda
        /\ Finite(result.lambda[h])
        /\ result.optimal_cost = result.lambda[h]
        /\ \A c \in Candidates :
             c \in DOMAIN result.lambda /\ Finite(result.lambda[c])
               => result.lambda[h] <= result.lambda[c]

\* C2 witness: a success with two reachable candidates at different distances,
\* the cheaper one not being the destination.
C2_Witness ==
  /\ Success
  /\ result.optimal_hospital # destination
  /\ \E c \in Candidates :
       /\ c \in DOMAIN result.lambda
       /\ Finite(result.lambda[c])
       /\ result.lambda[c] > result.optimal_cost

\* C3: in a success result the selected candidate's route starts at that
\* candidate and ends at the destination, and so does the route stored for
\* every reachable candidate.
C3_RouteEndpoints ==
  Success =>
    /\ First(result.optimal_route) = result.optimal_hospital
    /\ Last(result.optimal_route) = destination
    /\ \A c \in DOMAIN result.all_hospitals :
         /\ First(result.all_hospitals[c].route) = c
         /\ Last(result.all_hospitals[c].route) = destination

\* C4: for every reachable candidate the stored metrics add up to its distance:
\* w_T * travel_time + (network + gps + data) + w_C * total_cost = lambda[c].
Reconciled(det) ==
  coeff.w_T * det.travel_time * 1000
    + (det.it_components.network + det.it_components.gps + det.it_components.data)
    + coeff.w_C * det.total_cost * 1000

C4_MetricsReconcile ==
  Success =>
    \A c \in DOMAIN result.all_hospitals :
      /\ Reconciled(result.all_hospitals[c]) = result.all_hospitals[c].lambda
      /\ Reconciled(result.all_hospitals[c]) = result.lambda[c]

\* C5 as stated: the error outcome is returned exactly when no candidate has a
\* forward path to the destination, and always when the candidates list is
\* empty, when no candidate is a node of the graph, or when the destination is
\* not a node of the graph.
C5_ErrorIffUnreachable_AsStated ==
  Done =>
    /\ result.kind \in {"error", "success"}
    /\ result.kind = "error" <=> \A c \in Candidates : ~Finite(TrueCost[c])
    /\ hospitals = <<>> => result.kind = "error"
    /\ Candidates \cap V = {} => result.kind = "error"
    /\ destination \notin V => result.kind = "error"

\* C5 amended: the error outcome is returned exactly when no candidate has a
\* forward path to the destination, the destination itself always counting as
\* reaching itself (by the empty path) even when it is not a node of the
\* graph; so an empty list gives the error, and candidates outside the graph
\* or a destination outside the graph give it unless the destination is
\* itself a candidate.  Every other call returns a success result.  (A raised
\* KeyError would show as a function applied outside its domain.)
C5_ErrorIffUnreachable ==
  Done =>
    /\ result.kind \in {"error", "success"}
    /\ result.kind = "error" <=> \A c \in Candidates : ~Finite(TrueCost[c])
    /\ hospitals = <<>> => result.kind = "error"
    /\ destination \notin Candidates /\ (Candidates \cap V = {} \/ destination \notin V)
         => result.kind = "error"
    /\ destination \in Candidates => result.kind = "success"

\* C5 witness: the error outcome for a non-empty candidates list, all of them
\* nodes of the graph, and a destination that is a node of the graph.
C5_Witness ==
  /\ Failure
  /\ hospitals # <<>>
  /\ Candidates \subseteq V
  /\ destination \in V

\* C6: in a success result the keys of all_hospitals are exactly the
\* candidates with finite distance, which are exactly the candidates with a
\* forward path to the destination; the selected candidate is one of them.
C6_DetailsAreTheReachable ==
  Success =>
    /\ DOMAIN result.all_hospitals =
         {c \in Candidates : c \in DOMAIN result.lambda /\ Finite(result.lambda[c])}
    /\ DOMAIN result.all_hospitals = {c \in Candidates : Finite(TrueCost[c])}
    /\ result.optimal_hospital \in DOMAIN result.all_hospitals

\* C6 witness: a success whose candidates list holds a reachable candidate
\* other than the destination and an unreachable node of the graph.
C6_Witness ==
  /\ Success
  /\ \E c \in Candidates : c \in V /\ ~Finite(lambda[c])
  /\ \E c \in Candidates \cap V : c # destination /\ Finite(lambda[c])

\* C7: among the reachable candidates that share the minimum distance the one
\* marked visited first is selected, and a call with the candidates list
\* permuted selects the same candidate.
C7_TieToFirstVisited ==
  /\ Success =>
       \A c \in Candidates \cap Range(order) :
         lambda[c] = result.optimal_cost
           => Position(result.optimal_hospital) <= Position(c)
  /\ Done /\ first.kind = "call" =>
       /\ result.kind = first.result.kind
       /\ result.kind = "success" =>
            result.optimal_hospital = first.result.optimal_hospital

\* C7 witness: the second of two calls, its candidates list the reverse of the
\* first call's, with two distinct candidates tied at the minimum distance.
C7_Witness ==
  /\ Success
  /\ first.kind = "call"
  /\ first.hospitals # hospitals
  /\ \E c \in Candidates \cap Range(order) :
       /\ c # result.optimal_hospital
       /\ Finite(lambda[c])
       /\ lambda[c] = result.optimal_cost

\* C8: a second call with the same graph, destination and candidates list
\* returns the same outcome: the same selected candidate, cost and route.
C8_Deterministic ==
  Done /\ first.kind = "call" /\ first.hospitals = hospitals =>
    /\ result.kind = first.result.kind
    /\ result.kind = "success" =>
         /\ result.optimal_hospital = first.result.optimal_hospital
         /\ result.optimal_cost = first.result.optimal_cost
         /\ result.optimal_route = first.result.optimal_route

\* C8 witness: the second of two equal calls has returned a success whose
\* route has an intermediate node.
C8_Witness ==
  /\ Success
  /\ first.kind = "call"
  /\ first.hospitals = hospitals
  /\ Len(result.optimal_route) >= 3

\* C9: G_prime has the edge v -> u with payload P exactly when G has the edge
\* u -> v with payload P, and every endpoint of an edge is a key of G_prime
\* and a member of V.
C9_ReversalCorrect ==
  /\ \A u, v \in Nodes :
       (v \in DOMAIN G_prime /\ u \in DOMAIN G_prime[v])
         <=> (u \in DOMAIN G /\ v \in DOMAIN G[u])
  /\ \A e \in Edges(G) :
       /\ e[1] \in DOMAIN G_prime /\ e[2] \in DOMAIN G_prime
       /\ e[1] \in V /\ e[2] \in V
       /\ G_prime[e[2]][e[1]] = G[e[1]][e[2]]

\* C9 witness: a constructed engine whose graph has an edge into a sink that
\* is no key of G, and edges of different payloads.
C9_Witness ==
  /\ \E e \in Edges(G) : e[2] \notin DOMAIN G
  /\ \E e, f \in Edges(G) : G[e[1]][e[2]] # G[f[1]][f[2]]

\* C10: during the search and in the returned map the destination's distance
\* is 0 and every finite distance is non-negative.
C10_DistancesNonNegative ==
  /\ pc \in {"search", "done"} =>
       /\ lambda[destination] = 0
       /\ \A n \in DOMAIN lambda : Finite(lambda[n]) => lambda[n] >= 0
  /\ Success =>
       /\ result.lambda[destination] = 0
       /\ \A n \in DOMAIN result.lambda :
            Finite(result.lambda[n]) => result.lambda[n] >= 0

\* C10 witness: a search in progress with a node at a positive finite
\* distance and another still at infinity.
C10_Witness ==
  /\ pc = "search"
  /\ Q # {}
  /\ \E n \in DOMAIN lambda : Finite(lambda[n]) /\ lambda[n] > 0
  /\ \E n \in DOMAIN lambda : ~Finite(lambda[n])

\* C11: when the destination is itself a candidate the call succeeds, selects
\* the destination with cost 0 and returns the one-element route, also when
\* another candidate is at distance 0.
C11_DestinationCandidate ==
  Done /\ destination \in Candidates =>
    /\ result.kind = "success"
    /\ result.optimal_hospital = destination
    /\ result.optimal_cost = 0
    /\ result.optimal_route = <<destination>>

\* C11 witness: a success for a candidates list that holds the destination and
\* another node at distance 0.
C11_Witness ==
  /\ Success
  /\ destination \in Candidates
  /\ \E c \in Candidates \cap V : c # destination /\ lambda[c] = 0

\* C12: every returned route (optimal_route and each details route) is a path
\* of the forward graph: each consecutive pair (u, v) is an edge u -> v of G.
IsForwardPath(route) ==
  \A i \in 1..(Len(route) - 1) : <<route[i], route[i + 1]>> \in Edges(G)

C12_RoutesAreForwardPaths ==
  Success =>
    /\ IsForwardPath(result.optimal_route)
    /\ \A c \in DOMAIN result.all_hospitals :
         IsForwardPath(result.all_hospitals[c].route)

\* C13: with the pred map of a completed search, _reconstruct_original_path
\* of a node of finite distance starts at the node, ends at the destination,
\* walks forward edges only, and its composite weights add up to the node's
\* distance.
RECURSIVE PathWeight(_, _)
PathWeight(route, i) ==
  IF i > Len(route) - 1 THEN 0
  ELSE EdgeWeight(route[i], route[i + 1]) + PathWeight(route, i + 1)

C13_ReconstructedPath ==
  pc = "reconstructed" /\ probe.node \in DOMAIN lambda /\ Finite(lambda[probe.node]) =>
    /\ Len(probe.out) >= 1
    /\ First(probe.out) = probe.node
    /\ Last(probe.out) = destination
    /\ IsForwardPath(probe.out)
    /\ PathWeight(probe.out, 1) = lambda[probe.node]

\* C13 witness: a path reconstructed for a node two edges away from the
\* destination.
C13_Witness ==
  /\ pc = "reconstructed"
  /\ probe.node \in DOMAIN lambda
  /\ Finite(lambda[probe.node])
  /\ Len(probe.out) >= 3
  /\ lambda[probe.node] > 0

\* C14: for any sequence of nodes _calculate_route_metrics returns the sums
\* taken over exactly the consecutive pairs that are forward edges; a pair
\* that is no forward edge adds nothing and stops nothing.
EdgePairs(route) ==
  {i \in 1..(Len(route) - 1) : <<route[i], route[i + 1]>> \in Edges(G)}

RECURSIVE SumOver(_, _, _)
SumOver(I, route, field) ==
  IF I = {} THEN 0
  ELSE
    LET i == CHOOSE j \in I : TRUE
        a == G[route[i]][route[i + 1]]
        x == CASE field = "time" -> a.time
               [] field = "cost" -> a.cost
               [] field = "network" -> coeff.w_R * coeff.v_net * a.it_risk.network
               [] field = "gps" -> coeff.w_R * coeff.v_gps * a.it_risk.gps
               [] field = "data" -> coeff.w_R * coeff.v_data * a.it_risk.data
    IN  x + SumOver(I \ {i}, route, field)

C14_MetricsSkipMissingEdges ==
  pc = "measured" =>
    LET I == EdgePairs(probe.route)
    IN  /\ probe.out.travel_time = SumOver(I, probe.route, "time")
        /\ probe.out.total_cost = SumOver(I, probe.route, "cost")
        /\ probe.out.it_components.network = SumOver(I, probe.route, "network")
        /\ probe.out.it_components.gps = SumOver(I, probe.route, "gps")
        /\ probe.out.it_components.data = SumOver(I, probe.route, "data")

\* C14 witness: metrics of a sequence whose first pair is no forward edge and
\* whose second pair is an edge with a non-zero payload.
C14_Witness ==
  /\ pc = "measured"
  /\ Len(probe.route) = 3
  /\ EdgePairs(probe.route) = {2}
  /\ probe.out.travel_time > 0
  /\ probe.out.it_components.gps + probe.out.it_components.network > 0

\* C15: the search loop terminates, and only with an empty queue; it never
\* pushes more than 1 + |E| entries; and whenever the queue is empty (the
\* loop's exit) the visited set is exactly the set of nodes with finite
\* distance (no early stop).
FiniteNodes == {n \in DOMAIN lambda : Finite(lambda[n])}

C15_TerminatesExhaustively ==
  /\ [](pc \in {"search", "done"} => pushes <= 1 + Cardinality(Edges(G)))
  /\ [](Done => Q = {})
  /\ [](pc \in {"search", "done"} /\ Q = {} => visited = FiniteNodes)
  /\ [](pc = "search" => <>(pc = "done"))

\* C15 witness: a finished search that popped a stale entry and went on
\* visiting after its last candidate had been found.
C15_Witness ==
  /\ Done
  /\ pushes > Cardinality(visited)
  /\ hospitals # <<>>
  /\ Candidates \subseteq visited
  /\ Last(order) \notin Candidates

\* C16: no step of find_optimal_dispatch or _calculate_route_metrics changes
\* G, G_prime, V or the six coefficients.
C16_EngineUnchanged == [][UNCHANGED engine]_vars

\* C16 witness: a finished call whose destination is not a node of the graph.
C16_Witness ==
  /\ Done
  /\ destination \notin V
  /\ destination \in DOMAIN lambda

\* C17: no node is marked visited twice, the lambda and pred entries of a
\* visited node never change during the search, and the cost recorded for a
\* candidate equals its entry of the returned distance map.
NoDuplicates(seq) == \A i, j \in DOMAIN seq : i # j => seq[i] # seq[j]

C17_VisitedIsFinal ==
  /\ [](NoDuplicates(order) /\ Range(order) = visited)
  /\ [][pc = "search" =>
          \A n \in visited :
            /\ n \in visited'
            /\ lambda'[n] = lambda[n]
            /\ Get(pred', n, None) = Get(pred, n, None)]_vars
  /\ [](Success =>
          \A i \in DOMAIN found_hospitals :
            found_hospitals[i].cost = result.lambda[found_hospitals[i].h])

\* C17 witness: a success whose selected candidate had a stale queue entry:
\* its direct edge to the destination costs more than its recorded distance.
C17_Witness ==
  /\ Success
  /\ result.optimal_hospital # destination
  /\ <<result.optimal_hospital, destination>> \in Edges(G)
  /\ result.optimal_cost < EdgeWeight(result.optimal_hospital, destination)

\* C18: nodes are marked visited in non-decreasing order of distance, and the
\* first candidate visited has the minimum distance of all reachable
\* candidates.
C18_VisitedInDistanceOrder ==
  pc \in {"search", "done"} =>
    /\ \A i, j \in DOMAIN order : i < j => lambda[order[i]] <= lambda[order[j]]
    /\ \A i \in DOMAIN order : Finite(lambda[order[i]])
    /\ Done /\ found_hospitals # <<>> =>
         \A c \in Candidates \cap FiniteNodes :
           lambda[found_hospitals[1].h] <= lambda[c]

\* C18 witness: a finished search that visited three nodes at three different
\* distances, the last two of them candidates.
C18_Witness ==
  /\ Done
  /\ Len(order) = 3
  /\ lambda[order[1]] < lambda[order[2]]
  /\ lambda[order[2]] < lambda[order[3]]
  /\ Candidates = {order[2], order[3]}

\* C19: in every state of the search the destination has no predecessor; a
\* node's predecessor k is visited, the node has a forward edge to k and its
\* distance is k's distance plus that edge's weight; a node other than the
\* destination has a predecessor exactly when its distance is finite; and
\* the pred chain from any node is free of repetitions and ends at None.
C19_PredecessorsConsistent ==
  pc \in {"search", "done"} =>
    /\ Get(pred, destination, None) = None
    /\ \A n \in DOMAIN pred :
         pred[n] # None =>
           /\ pred[n] \in visited
           /\ <<n, pred[n]>> \in Edges(G)
           /\ lambda[n] = lambda[pred[n]] + EdgeWeight(n, pred[n])
    /\ \A n \in DOMAIN pred \ {destination} : pred[n] # None <=> Finite(lambda[n])
    /\ \A n \in Nodes :
         LET chain == Trace(n, pred, <<>>)
         IN  /\ NoDuplicates(chain)
             /\ Get(pred, Last(chain), None) = None

\* C19 witness: a search in progress in which a node already has a
\* predecessor other than the destination and an edge to the destination.
C19_Witness ==
  /\ pc = "search"
  /\ \E n \in DOMAIN pred :
       /\ pred[n] # None
       /\ pred[n] # destination
       /\ <<n, destination>> \in Edges(G)

\* C20: between iterations every queue entry (x, n) has x >= lambda[n], every
\* unvisited node of finite distance has the entry (lambda[n], n), and an
\* entry that is popped and not discarded carries the node's distance.
C20_QueueInvariant ==
  pc = "search" =>
    /\ \A e \in Q : e[2] \in DOMAIN lambda /\ ~Less(e[1], lambda[e[2]])
    /\ \A n \in FiniteNodes \ visited : <<lambda[n], n>> \in Q
    /\ Q # {} /\ ~Stale(HeapMin(Q)) => HeapMin(Q)[1] = lambda[HeapMin(Q)[2]]

\* C20 witness: a queue holding a stale entry of a node together with that
\* node's current entry.
C20_Witness ==
  /\ pc = "search"
  /\ \E e \in Q :
       /\ Less(lambda[e[2]], e[1])
       /\ e[2] \notin visited
       /\ <<lambda[e[2]], e[2]>> \in Q

====
